---- MODULE Spec2Model ----
(***************************************************************************)
(* Photo manager (src/app.py): users, projects and photos kept in three    *)
(* SQLite tables, plus the files under UPLOADS_ROOT.  Every request        *)
(* handler that writes is one action; the handlers that only read          *)
(* (dashboard, admin panel, backup, file serving) change no state and are  *)
(* left out.                                                               *)
(*                                                                         *)
(* Python strings are sequences of one-character strings, so that          *)
(* slugify, secure_filename, Path.suffix, os.path.basename, str(int) and   *)
(* the f-strings that build file names are computed character by           *)
(* character.                                                              *)
(***************************************************************************)
EXTENDS Integers, Sequences, FiniteSets, TLC

VARIABLES users, projects, photos, files, clock,
          nextUserId, nextProjectId, nextPhotoId, last, pending

vars == <<users, projects, photos, files, clock,
          nextUserId, nextProjectId, nextPhotoId, last, pending>>

\* ------------------------------------------------------------- bounds
\* AUTOINCREMENT ids are never reused: each table hands out ids 1..Max.
MaxUserId == 2
MaxProjectId == 3
MaxPhotoId == 2
\* int(time.time()) takes the values 0..MaxClock.
MaxClock == 1

\* ------------------------------------------------------------ strings
LowerCase == <<"a","b","c","d","e","f","g","h","i","j","k","l","m",
               "n","o","p","q","r","s","t","u","v","w","x","y","z">>
UpperCase == <<"A","B","C","D","E","F","G","H","I","J","K","L","M",
               "N","O","P","Q","R","S","T","U","V","W","X","Y","Z">>
Digits == <<"0","1","2","3","4","5","6","7","8","9">>

Range(s) == { s[i] : i \in DOMAIN s }

LowerChars == Range(LowerCase)
UpperChars == Range(UpperCase)
DigitChars == Range(Digits)

\* str.lower() on one character
LowerChar(c) ==
  IF c \in UpperChars
  THEN LowerCase[CHOOSE i \in DOMAIN UpperCase : UpperCase[i] = c]
  ELSE c

\* str.lower()
Lower(s) == [i \in DOMAIN s |-> LowerChar(s[i])]

IsSpace(c) == c = " "

\* keep the characters of s that satisfy Keep, in order
RECURSIVE FilterChars(_, _)
FilterChars(s, keep) ==
  IF s = <<>> THEN <<>>
  ELSE IF Head(s) \in keep THEN <<Head(s)>> \o FilterChars(Tail(s), keep)
       ELSE FilterChars(Tail(s), keep)

\* str.strip(chars): drop leading and trailing characters that are in chars
RECURSIVE LStrip(_, _)
LStrip(s, chars) ==
  IF s # <<>> /\ Head(s) \in chars THEN LStrip(Tail(s), chars) ELSE s

RECURSIVE RStrip(_, _)
RStrip(s, chars) ==
  IF s # <<>> /\ s[Len(s)] \in chars
  THEN RStrip(SubSeq(s, 1, Len(s) - 1), chars) ELSE s

StripChars(s, chars) == RStrip(LStrip(s, chars), chars)

\* str.strip()
Strip(s) == StripChars(s, {" "})

\* re.sub(r"\s+", "_", s): every run of whitespace becomes one underscore
RECURSIVE SpaceRunsToUnderscore(_)
SpaceRunsToUnderscore(s) ==
  IF s = <<>> THEN <<>>
  ELSE IF IsSpace(Head(s))
       THEN <<"_">> \o SpaceRunsToUnderscore(LStrip(s, {" "}))
       ELSE <<Head(s)>> \o SpaceRunsToUnderscore(Tail(s))

\* str(n) for n >= 0, in decimal
RECURSIVE Str(_)
Str(n) == IF n < 10 THEN <<Digits[n + 1]>>
          ELSE Str(n \div 10) \o <<Digits[(n % 10) + 1]>>

\* position of the last occurrence of c in s, 0 when there is none (rfind + 1)
LastIndexOf(s, c) ==
  LET at == { i \in DOMAIN s : s[i] = c }
  IN IF at = {} THEN 0 ELSE CHOOSE i \in at : \A j \in at : j <= i

\* os.path.basename(p): what follows the last "/"
Basename(p) == SubSeq(p, LastIndexOf(p, "/") + 1, Len(p))

\* the directory part of a relative path: what precedes the last "/"
Dirname(p) == SubSeq(p, 1, LastIndexOf(p, "/") - 1)

\* pathlib.Path(name).suffix: from the last dot of the final component, unless
\* that dot is its first or its last character
Suffix(name) ==
  LET n == Basename(name)
      i == LastIndexOf(n, ".")
  IN IF 1 < i /\ i < Len(n) THEN SubSeq(n, i, Len(n)) ELSE <<>>

\* ------------------------------------------------------------- config
SlugMaxLen == 60

ALLOWED_EXTENSIONS ==
  { <<"p","n","g">>, <<"j","p","g">>, <<"j","p","e","g">>, <<"w","e","b","p">> }

SlugChars == LowerChars \cup DigitChars \cup {"_", "-"}

SlugifyFallback == <<"p","r","o","y","e","c","t","o">>

slugify(name) ==
  LET a == Lower(Strip(name))
      b == SpaceRunsToUnderscore(a)
      c == FilterChars(b, SlugChars)
  IN IF c = <<>> THEN SlugifyFallback
     ELSE SubSeq(c, 1, IF Len(c) < SlugMaxLen THEN Len(c) ELSE SlugMaxLen)

\* werkzeug.utils.secure_filename: path separators become spaces, whitespace
\* runs are joined by "_", characters outside [A-Za-z0-9_.-] are dropped, and
\* leading and trailing "." and "_" are stripped
SecureChars == LowerChars \cup UpperChars \cup DigitChars \cup {"_", ".", "-"}

secure_filename(s) ==
  LET a == [i \in DOMAIN s |-> IF s[i] = "/" THEN " " ELSE s[i]]
      b == SpaceRunsToUnderscore(Strip(a))
      c == FilterChars(b, SecureChars)
  IN StripChars(c, {".", "_"})


\* ------------------------------------------------------ Python literals
\* the characters of the string literals the handlers use
GENERAL == <<"g","e","n","e","r","a","l">>
GeneralName == <<"G","e","n","e","r","a","l">>
AdminName == <<"a","d","m","i","n">>
AdminPassword == <<"a","d","m","i","n","1","2","3">>
FotoPrefix == <<"f","o","t","o","_">>
JPG == <<"j","p","g">>

\* SQL NULL in an integer column; ids start at 1
NULL == 0

\* int(time.time())
Now == clock

\* ------------------------------------------------------------- inputs
\* form values a request can carry; each set holds the values that reach the
\* handlers' different branches
ProjectNames ==
  { <<"R","o","o","f"," ","A">>,            \* slug roof_a
    <<"R","o","o","f"," ","A","!","!">>,    \* slug roof_a as well
    GeneralName,                             \* the seeded project's name
    <<"!","!">>,                             \* no slug character: proyecto
    <<" ">> }                                \* empty once stripped

DisplayNames ==
  { <<"P","a","n","e","l"," ","1">>,        \* base panel_1
    <<"p","a","n","e","l","_","1">>,        \* another name, the same base
    <<" ">> }                                \* empty once stripped

Descriptions == { <<>>, <<"d">> }

\* request.files.get("photo"): no part at all, or a part with this filename
NoFile == <<"<none>">>
UploadFiles ==
  { NoFile, <<>>, <<"a",".","J","P","G">>, <<"a",".","g","i","f">>,
    <<".","j","p","g">> }

Usernames == { AdminName, <<"u">>, <<>> }
Passwords == { <<>>, <<"p">> }

\* ids as the form sends them: the decimal text of an id, or nothing
IdInputs(max) == { Str(i) : i \in 1..max } \cup { <<>> }

\* --------------------------------------------------------- SQL helpers
\* the integer a TEXT parameter compares as against an INTEGER column
\* (NULL when it is not the text of a number: no row matches)
RECURSIVE ParseNat(_)
ParseNat(s) ==
  IF s = <<>> THEN 0
  ELSE 10 * ParseNat(SubSeq(s, 1, Len(s) - 1))
       + ((CHOOSE i \in DOMAIN Digits : Digits[i] = s[Len(s)]) - 1)

IsNumeral(s) == s # <<>> /\ \A i \in DOMAIN s : s[i] \in DigitChars

ParseId(s) == IF IsNumeral(s) THEN ParseNat(s) ELSE NULL

UserById(id) == { u \in users : u.id = id }
ProjectById(id) == { p \in projects : p.id = id }
ProjectBySlug(slug) == { p \in projects : p.slug = slug }
PhotoById(id) == { ph \in photos : ph.id = id }
Slugs == { p.slug : p \in projects }
Admins == { u \in users : u.is_admin = 1 }

\* the one element of a singleton set (fetchone() of a lookup by a unique key)
One(S) == CHOOSE x \in S : TRUE

\* Path.exists() of UPLOADS_ROOT / fp
Exists(fs, fp) == fp \in DOMAIN fs

\* file.save / Path.replace write the destination whether or not it exists
WriteFile(fs, fp, content) ==
  [p \in (DOMAIN fs) \cup {fp} |-> IF p = fp THEN content ELSE fs[p]]

RemoveFile(fs, fp) == [p \in (DOMAIN fs) \ {fp} |-> fs[p]]

\* a move that leaves the source in place
CopyFile(fs, old, new) ==
  IF old = new THEN fs
  ELSE WriteFile(fs, new, fs[old])

\* Path.replace(old, new): the file moves, replacing whatever is at new
MoveFile(fs, old, new) ==
  IF old = new THEN fs
  ELSE RemoveFile(WriteFile(fs, new, fs[old]), old)

\* the rows of a SELECT without ORDER BY, in rowid order
RECURSIVE InIdOrder(_)
InIdOrder(rows) ==
  IF rows = {} THEN <<>>
  ELSE LET first == CHOOSE r \in rows : \A o \in rows : r.id <= o.id
       IN <<first>> \o InIdOrder(rows \ {first})

\* ------------------------------------------------------------ requests
NoRequest == [op |-> "none", by |-> NULL, id |-> NULL, flash |-> "none"]

Response(op, by, id, flash) == [op |-> op, by |-> by, id |-> id, flash |-> flash]

\* a decorator that asks only for a session whose user has a row
IsLoggedIn(uid) == \E u \in users : u.id = uid

\* admin_required / upload_required: the session's user still has a row and
\* that row has is_admin set
IsAdmin(uid) == \E u \in users : u.id = uid /\ u.is_admin = 1

\* check_password_hash(generate_password_hash(p), q): true exactly when p = q
generate_password_hash(pw) == <<"h">> \o pw

\* --------------------------------------------------------------- Init
\* create_app() on an empty instance directory: init_db, then
\* ensure_admin_and_default_project
Init ==
  /\ users = { [id |-> 1, username |-> AdminName,
                password_hash |-> generate_password_hash(AdminPassword),
                is_admin |-> 1] }
  /\ projects = { [id |-> 1, name |-> GeneralName, slug |-> GENERAL] }
  /\ photos = {}
  /\ files = <<>>
  /\ clock = 0
  /\ nextUserId = 2
  /\ nextProjectId = 2
  /\ nextPhotoId = 1
  /\ last = NoRequest
  /\ pending = {}

\* the clock reaches the next second; the previous response is over
Tick ==
  /\ clock < MaxClock
  /\ clock' = clock + 1
  /\ last' = NoRequest
  /\ UNCHANGED <<users, projects, photos, files,
                 nextUserId, nextProjectId, nextPhotoId, pending>>


\* ------------------------------------------------------------ projects
\* admin_create_project's loop: slug, then base_2, base_3, ... until free
RECURSIVE SlugLoop(_, _, _, _)
SlugLoop(base, slug, i, taken) ==
  IF slug \in taken
  THEN SlugLoop(base, base \o <<"_">> \o Str(i), i + 1, taken)
  ELSE slug

UniqueSlug(name) == SlugLoop(slugify(name), slugify(name), 2, Slugs)

\* a projects table whose slug column is not UNIQUE
ProjectNameTaken(name, slug) ==
  \E p \in projects : p.name = name

\* the UNIQUE constraints of the projects table: sqlite3.IntegrityError
ProjectInsertFails(name, slug) ==
  \E p \in projects : p.name = name \/ p.slug = slug

ProjectRenameFails(id, name) ==
  \E p \in projects : p.id # id /\ p.name = name

\* INSERT INTO projects, or the IntegrityError branch
InsertProject(by, name, slug) ==
  IF ProjectInsertFails(name, slug)
  THEN /\ last' = Response("createProject", by, NULL, "Ese proyecto ya existe.")
       /\ UNCHANGED <<projects, nextProjectId>>
  ELSE /\ projects' = projects \cup
             { [id |-> nextProjectId, name |-> name, slug |-> slug] }
       /\ nextProjectId' = nextProjectId + 1
       /\ last' = Response("createProject", by, nextProjectId, "Proyecto creado.")

admin_create_project(by, project_name) ==
  /\ IsAdmin(by)
  /\ LET name == Strip(project_name)
     IN IF name = <<>>
        THEN /\ last' = Response("createProject", by, NULL,
                                 "El nombre del proyecto es obligatorio.")
             /\ UNCHANGED <<projects, nextProjectId>>
        ELSE InsertProject(by, name, UniqueSlug(name))
  /\ UNCHANGED <<users, photos, files, clock, nextUserId, nextPhotoId, pending>>

admin_edit_project(by, project_id, name_in) ==
  /\ IsAdmin(by)
  /\ LET name == Strip(name_in)
     IN IF ProjectById(project_id) = {}
        THEN /\ last' = Response("updateProject", by, project_id,
                                 "Proyecto no encontrado.")
             /\ UNCHANGED projects
        ELSE IF name = <<>>
        THEN /\ last' = Response("updateProject", by, project_id,
                                 "El nombre es obligatorio.")
             /\ UNCHANGED projects
        ELSE IF ProjectRenameFails(project_id, name)
        THEN /\ last' = Response("updateProject", by, project_id,
                                 "Ya existe un proyecto con ese nombre.")
             /\ UNCHANGED projects
        ELSE /\ projects' = { IF p.id = project_id
                              THEN [p EXCEPT !.name = name] ELSE p
                              : p \in projects }
             /\ last' = Response("updateProject", by, project_id,
                                 "Proyecto actualizado.")
  /\ UNCHANGED <<users, photos, files, clock, nextUserId, nextProjectId,
                 nextPhotoId, pending>>

Join(dir, name) == dir \o <<"/">> \o name

\* the timestamp-prefixed name admin_delete_project falls back to
PrefixedName(t, name) == Str(t) \o <<"_">> \o name

\* one pass of admin_delete_project's loop over a photo of the project:
\* the new path, and the files after the move (if the source exists)
RelocatedPath(ph, slug, fs, t) ==
  LET fp0 == Strip(ph.filepath)
      old_fp == IF fp0 = <<>> /\ ph.filename # <<>>
                THEN Join(slug, ph.filename) ELSE fp0
      old_name == IF old_fp # <<>> THEN Basename(old_fp)
                  ELSE IF ph.filename # <<>> THEN ph.filename
                  ELSE Str(t) \o <<".">> \o JPG
      new_fp == Join(GENERAL, old_name)
  IN [old |-> old_fp,
      new |-> IF old_fp # <<>> /\ Exists(fs, old_fp) /\ Exists(fs, new_fp)
              THEN Join(GENERAL, PrefixedName(t, old_name))
              ELSE new_fp,
      move |-> old_fp # <<>> /\ Exists(fs, old_fp)]

\* the loop itself: the files and the rewritten rows after every photo in
\* rows has been handled in turn
RECURSIVE RelocateAll(_, _, _, _, _, _)
RelocateAll(rows, fs, done, slug, general_id, t) ==
  IF rows = <<>> THEN [files |-> fs, rows |-> done]
  ELSE LET ph == Head(rows)
           r == RelocatedPath(ph, slug, fs, t)
           fs2 == IF r.move THEN MoveFile(fs, r.old, r.new) ELSE fs
           row == [ph EXCEPT !.project_id = general_id,
                             !.filepath = r.new,
                             !.filename = Basename(r.new)]
       IN RelocateAll(Tail(rows), fs2, done \cup {row}, slug, general_id, t)

\* a handler that lets every project be deleted
NeverDefaultProject(proj) == FALSE

\* if proj["slug"] == "general": the default project is told by its slug
IsDefaultProject(proj) == proj.slug = GENERAL

admin_delete_project(by, project_id) ==
  /\ IsAdmin(by)
  /\ IF ProjectById(project_id) = {}
     THEN /\ last' = Response("deleteProject", by, project_id,
                              "Proyecto no encontrado.")
          /\ UNCHANGED <<projects, photos, files>>
     ELSE IF IsDefaultProject(One(ProjectById(project_id)))
     THEN /\ last' = Response("deleteProject", by, project_id,
                              "No se puede eliminar el proyecto General.")
          /\ UNCHANGED <<projects, photos, files>>
     ELSE IF ProjectBySlug(GENERAL) = {}
     THEN /\ last' = Response("deleteProject", by, project_id,
                              "No existe el proyecto General.")
          /\ UNCHANGED <<projects, photos, files>>
     ELSE LET proj == One(ProjectById(project_id))
              general == One(ProjectBySlug(GENERAL))
              mine == { ph \in photos : ph.project_id = project_id }
              res == RelocateAll(InIdOrder(mine), files, {}, proj.slug,
                                 general.id, Now)
          IN /\ files' = res.files
             /\ photos' = (photos \ mine) \cup res.rows
             /\ projects' = projects \ {proj}
             /\ last' = Response("deleteProject", by, project_id,
                                 "Proyecto eliminado. Las fotos se movieron a General.")
  /\ UNCHANGED <<users, clock, nextUserId, nextProjectId, nextPhotoId, pending>>


\* -------------------------------------------------------------- photos
\* the extension the handlers read off a file name: suffix, lowered, no dot
Extension(name) == LStrip(Lower(Suffix(name)), {"."})

\* secure_filename(display_name).strip("_").lower(), or foto_<time>
BaseName(display_name, t) ==
  LET base == Lower(StripChars(secure_filename(display_name), {"_"}))
  IN IF base = <<>> THEN FotoPrefix \o Str(t) ELSE base

\* f"{base}_{int(time.time())}.{ext}"
TimestampedName(base, t, ext) == base \o <<"_">> \o Str(t) \o <<".">> \o ext

get_photo_filepath(row) ==
  LET fp == Strip(row.filepath)
      fn == Strip(row.filename)
  IN IF fp # <<>> THEN fp
     ELSE IF fn # <<>> THEN Join(GENERAL, fn)
     ELSE <<>>

\* a validation that accepts every extension
UploadErrorAnyExtension(file, display_name, project_id) ==
  IF project_id = <<>> THEN "Selecciona un proyecto."
  ELSE IF ProjectById(ParseId(project_id)) = {} THEN "Proyecto invalido."
  ELSE IF file = NoFile \/ file = <<>> THEN "Selecciona una imagen."
  ELSE IF display_name = <<>> THEN "El nombre/codigo es obligatorio."
  ELSE "ok"

\* the validation of upload's POST, in the handler's order: the flash
\* message of the first check that fails, "ok" when none does
UploadError(file, display_name, project_id) ==
  IF project_id = <<>> THEN "Selecciona un proyecto."
  ELSE IF ProjectById(ParseId(project_id)) = {} THEN "Proyecto invalido."
  ELSE IF file = NoFile \/ file = <<>> THEN "Selecciona una imagen."
  ELSE IF display_name = <<>> THEN "El nombre/codigo es obligatorio."
  ELSE IF Extension(file) \notin ALLOWED_EXTENSIONS
       THEN "Formato no permitido. Usa JPG/PNG/WEBP."
  ELSE "ok"

\* the uploaded bytes are told apart by the id the new row gets
upload(by, file, display_name_in, description_in, project_id_in) ==
  /\ IsAdmin(by)
  /\ LET display_name == Strip(display_name_in)
         description == Strip(description_in)
         project_id == Strip(project_id_in)
         err == UploadError(file, display_name, project_id)
     IN IF err # "ok"
        THEN /\ last' = Response("upload", by, NULL, err)
             /\ UNCHANGED <<photos, files, nextPhotoId>>
        ELSE LET proj == One(ProjectById(ParseId(project_id)))
                 final_name == TimestampedName(BaseName(display_name, Now), Now,
                                               Extension(file))
                 filepath == Join(proj.slug, final_name)
             IN /\ files' = WriteFile(files, filepath, nextPhotoId)
                /\ photos' = photos \cup
                     { [id |-> nextPhotoId, filepath |-> filepath,
                        filename |-> final_name, display_name |-> display_name,
                        description |-> description, uploaded_at |-> Now,
                        uploaded_by |-> by,
                        project_id |-> ParseNat(project_id)] }
                /\ nextPhotoId' = nextPhotoId + 1
                /\ last' = Response("upload", by, nextPhotoId,
                                    "Imagen subida correctamente.")
  /\ UNCHANGED <<users, projects, clock, nextUserId, nextProjectId, pending>>

\* what edit_photo's POST computes once its inputs are validated: the row's
\* new path fields, the files afterwards and whether the source was missing
EditPlanFor(photo, new_display_name, new_project_id, new_proj, fs, t) ==
  LET old_fp == get_photo_filepath(photo)
      old_project_id == IF photo.project_id = NULL THEN <<>>
                        ELSE Str(photo.project_id)
      old_display_name == Strip(photo.display_name)
      old_filename == IF old_fp # <<>> THEN Basename(old_fp) ELSE photo.filename
      ext0 == Extension(old_filename)
      ext == IF ext0 \notin ALLOWED_EXTENSIONS THEN JPG ELSE ext0
      project_changed == old_project_id # new_project_id
      name_changed == Lower(old_display_name) # Lower(new_display_name)
      base == BaseName(new_display_name, t)
      new_filename == IF name_changed THEN TimestampedName(base, t, ext)
                      ELSE old_filename
      new_fp == Join(new_proj.slug, new_filename)
      regenerated == TimestampedName(base, t, ext)
  IN IF ~(project_changed \/ name_changed)
     THEN [filepath |-> new_fp, filename |-> new_filename, files |-> fs,
           missing |-> FALSE]
     ELSE IF old_fp # <<>> /\ Exists(fs, old_fp)
     THEN IF Exists(fs, new_fp)
          THEN [filepath |-> Join(new_proj.slug, regenerated),
                filename |-> regenerated,
                files |-> MoveFile(fs, old_fp, Join(new_proj.slug, regenerated)),
                missing |-> FALSE]
          ELSE [filepath |-> new_fp, filename |-> new_filename,
                files |-> MoveFile(fs, old_fp, new_fp), missing |-> FALSE]
     ELSE [filepath |-> old_fp, filename |-> old_filename, files |-> fs,
           missing |-> TRUE]

\* the same with new_proj read when the plan is made
EditPlan(photo, new_display_name, new_project_id, fs, t) ==
  EditPlanFor(photo, new_display_name, new_project_id,
              One(ProjectById(ParseId(new_project_id))), fs, t)

edit_photo(by, photo_id, display_name_in, description_in, project_id_in) ==
  /\ IsAdmin(by)
  /\ LET new_display_name == Strip(display_name_in)
         new_description == Strip(description_in)
         new_project_id == Strip(project_id_in)
     IN IF PhotoById(photo_id) = {}
        THEN /\ last' = Response("editPhoto", by, photo_id, "Foto no encontrada.")
             /\ UNCHANGED <<photos, files>>
        ELSE IF new_display_name = <<>>
        THEN /\ last' = Response("editPhoto", by, photo_id,
                                 "El nombre/codigo es obligatorio.")
             /\ UNCHANGED <<photos, files>>
        ELSE IF new_project_id = <<>>
        THEN /\ last' = Response("editPhoto", by, photo_id,
                                 "Selecciona un proyecto.")
             /\ UNCHANGED <<photos, files>>
        ELSE IF ProjectById(ParseId(new_project_id)) = {}
        THEN /\ last' = Response("editPhoto", by, photo_id, "Proyecto invalido.")
             /\ UNCHANGED <<photos, files>>
        ELSE LET photo == One(PhotoById(photo_id))
                 plan == EditPlan(photo, new_display_name, new_project_id,
                                  files, Now)
             IN /\ files' = plan.files
                /\ photos' = (photos \ {photo}) \cup
                     { [photo EXCEPT !.display_name = new_display_name,
                                     !.description = new_description,
                                     !.project_id = ParseNat(new_project_id),
                                     !.filepath = plan.filepath,
                                     !.filename = plan.filename] }
                /\ last' = Response("editPhoto", by, photo_id,
                     IF plan.missing
                     THEN "Aviso: no se encontro el archivo fisico. Foto actualizada."
                     ELSE "Foto actualizada.")
  /\ UNCHANGED <<users, projects, clock, nextUserId, nextProjectId,
                 nextPhotoId, pending>>

delete_photo(by, photo_id) ==
  /\ IsAdmin(by)
  /\ IF PhotoById(photo_id) = {}
     THEN /\ last' = Response("deletePhoto", by, photo_id, "Foto no encontrada.")
          /\ UNCHANGED <<photos, files>>
     ELSE LET photo == One(PhotoById(photo_id))
              fp == get_photo_filepath(photo)
          IN /\ files' = IF fp # <<>> /\ Exists(files, fp)
                         THEN RemoveFile(files, fp) ELSE files
             /\ photos' = photos \ {photo}
             /\ last' = Response("deletePhoto", by, photo_id, "Foto eliminada.")
  /\ UNCHANGED <<users, projects, clock, nextUserId, nextProjectId,
                 nextPhotoId, pending>>


\* --------------------------------------------------------------- users
\* the UNIQUE constraint of users.username
UserInsertFails(username) == \E u \in users : u.username = username

admin_create_user(by, username_in, password, is_admin) ==
  /\ IsAdmin(by)
  /\ LET username == Strip(username_in)
     IN IF username = <<>> \/ password = <<>>
        THEN /\ last' = Response("createUser", by, NULL,
                                 "Usuario y contrasena son obligatorios.")
             /\ UNCHANGED <<users, nextUserId>>
        ELSE IF UserInsertFails(username)
        THEN /\ last' = Response("createUser", by, NULL, "Ese usuario ya existe.")
             /\ UNCHANGED <<users, nextUserId>>
        ELSE /\ users' = users \cup
                  { [id |-> nextUserId, username |-> username,
                     password_hash |-> generate_password_hash(password),
                     is_admin |-> is_admin] }
             /\ nextUserId' = nextUserId + 1
             /\ last' = Response("createUser", by, nextUserId, "Usuario creado.")
  /\ UNCHANGED <<projects, photos, files, clock, nextProjectId, nextPhotoId,
                 pending>>

\* the checks without the one on the requester's own account
DeleteUserErrorNoSelfCheck(by, user_id) ==
  IF UserById(user_id) = {} THEN "Usuario no encontrado."
  ELSE IF One(UserById(user_id)).is_admin = 1 /\ Cardinality(Admins) <= 1
       THEN "No puedes eliminar el ultimo administrador."
  ELSE "ok"

\* the three checks of admin_delete_user, in the handler's order: the flash
\* message of the first that refuses, "ok" when none does
DeleteUserError(by, user_id) ==
  IF by = user_id THEN "No puedes eliminar tu propio usuario."
  ELSE IF UserById(user_id) = {} THEN "Usuario no encontrado."
  ELSE IF One(UserById(user_id)).is_admin = 1 /\ Cardinality(Admins) <= 1
       THEN "No puedes eliminar el ultimo administrador."
  ELSE "ok"

\* a deletion that leaves the photos table alone
KeepOwner(rows, user_id) == rows

\* UPDATE photos SET uploaded_by = NULL WHERE uploaded_by = ?
NullOwner(rows, user_id) ==
  { IF ph.uploaded_by = user_id THEN [ph EXCEPT !.uploaded_by = NULL] ELSE ph
    : ph \in rows }

admin_delete_user(by, user_id) ==
  /\ IsAdmin(by)
  /\ LET err == DeleteUserError(by, user_id)
     IN IF err # "ok"
        THEN /\ last' = Response("deleteUser", by, user_id, err)
             /\ UNCHANGED <<users, photos>>
        ELSE /\ photos' = NullOwner(photos, user_id)
             /\ users' = users \ UserById(user_id)
             /\ last' = Response("deleteUser", by, user_id, "Usuario eliminado.")
  /\ UNCHANGED <<projects, files, clock, nextUserId, nextProjectId, nextPhotoId,
                 pending>>

\* login_required only: any user with a row may change their own password
change_password(by, current_pw, new_pw, new_pw2) ==
  /\ UserById(by) # {}
  /\ IF new_pw # new_pw2
     THEN /\ last' = Response("changePassword", by, by,
                              "Las contrasenas nuevas no coinciden.")
          /\ UNCHANGED users
     ELSE IF One(UserById(by)).password_hash # generate_password_hash(current_pw)
     THEN /\ last' = Response("changePassword", by, by,
                              "Tu contrasena actual es incorrecta.")
          /\ UNCHANGED users
     ELSE /\ users' = { IF u.id = by
                        THEN [u EXCEPT !.password_hash =
                                         generate_password_hash(new_pw)]
                        ELSE u : u \in users }
          /\ last' = Response("changePassword", by, by, "Contrasena actualizada.")
  /\ UNCHANGED <<projects, photos, files, clock, nextUserId, nextProjectId,
                 nextPhotoId, pending>>

\* ------------------------------------------------------------- restart
\* the process starts again on the same database and uploads directory:
\* ensure_admin_and_default_project seeds what is missing and backfills
\* legacy photo rows
ensure_admin_and_default_project ==
  /\ ~(Admins = {} /\ UserInsertFails(AdminName))
  /\ users' = IF Admins = {}
              THEN users \cup
                   { [id |-> nextUserId, username |-> AdminName,
                      password_hash |-> generate_password_hash(AdminPassword),
                      is_admin |-> 1] }
              ELSE users
  /\ nextUserId' = IF Admins = {} THEN nextUserId + 1 ELSE nextUserId
  /\ projects' = IF ProjectBySlug(GENERAL) = {}
                 THEN projects \cup
                      { [id |-> nextProjectId, name |-> GeneralName,
                         slug |-> GENERAL] }
                 ELSE projects
  /\ nextProjectId' = IF ProjectBySlug(GENERAL) = {}
                      THEN nextProjectId + 1 ELSE nextProjectId
  /\ LET general_id == One({ p \in projects' : p.slug = GENERAL }).id
         a == { IF ph.project_id = NULL
                THEN [ph EXCEPT !.project_id = general_id] ELSE ph
                : ph \in photos }
     IN photos' = { IF ph.filepath = <<>>
                    THEN [ph EXCEPT !.filepath = Join(GENERAL, ph.filename)]
                    ELSE ph : ph \in a }
  /\ last' = NoRequest
  /\ UNCHANGED <<files, clock, nextPhotoId, pending>>

\* ---------------------------------------------------------------- Next
\* The requests of an administrator's session.  The AUTOINCREMENT counters
\* are capped here, not in the handlers.
UserIds == 1..MaxUserId
ProjectIds == 1..MaxProjectId
PhotoIds == 1..MaxPhotoId

RoofA == <<"R","o","o","f"," ","A">>
RoofABang == <<"R","o","o","f"," ","A","!","!">>
Panel1 == <<"P","a","n","e","l"," ","1">>
panel_1 == <<"p","a","n","e","l","_","1">>
aJPG == <<"a",".","J","P","G">>

\* an administrator's session working on projects and photos
CreateProject ==
  /\ nextProjectId <= MaxProjectId
  /\ \E by \in UserIds : admin_create_project(by, RoofA)

DeleteProject == \E by \in UserIds, id \in ProjectIds :
  admin_delete_project(by, id)

Upload ==
  /\ nextPhotoId <= MaxPhotoId
  /\ \E by \in UserIds, name \in {Panel1, panel_1},
        pid \in IdInputs(MaxProjectId) :
       upload(by, aJPG, name, <<>>, pid)

\* the edit form sent with either display name and any project
EditPhoto == \E by \in UserIds, id \in PhotoIds, name \in {Panel1, panel_1},
                pid \in IdInputs(MaxProjectId) :
  edit_photo(by, id, name, <<>>, pid)

DeletePhoto == \E by \in UserIds, id \in PhotoIds : delete_photo(by, id)

Next ==
  \/ Tick
  \/ CreateProject
  \/ DeleteProject
  \/ Upload
  \/ EditPhoto
  \/ DeletePhoto

Spec == Init /\ [][Next]_vars

\* ------------------------------------------------- editing descriptions
\* photos of one display name; the edit form is sent with that name, either
\* description and any project
UploadPanel1 ==
  /\ nextPhotoId <= MaxPhotoId
  /\ \E by \in UserIds, pid \in IdInputs(MaxProjectId) :
       upload(by, aJPG, Panel1, <<>>, pid)

EditDescription == \E by \in UserIds, id \in PhotoIds, d \in Descriptions,
                      pid \in IdInputs(MaxProjectId) :
  edit_photo(by, id, Panel1, d, pid)

NextDescribe ==
  \/ Tick
  \/ CreateProject
  \/ DeleteProject
  \/ UploadPanel1
  \/ EditDescription
  \/ DeletePhoto

SpecDescribe == Init /\ [][NextDescribe]_vars

\* ---------------------------------------------------- upload requests
\* every kind of upload form, valid or not, against a small project table
UploadAnyForm ==
  /\ nextPhotoId <= MaxPhotoId
  /\ \E by \in UserIds, file \in UploadFiles, name \in DisplayNames,
        d \in Descriptions, pid \in IdInputs(MaxProjectId) :
       upload(by, file, name, d, pid)

NextUpload ==
  \/ Tick
  \/ CreateProject
  \/ DeleteProject
  \/ UploadAnyForm
  \/ DeletePhoto

SpecUpload == Init /\ [][NextUpload]_vars

\* ------------------------------------------------ deleting projects
\* projects are created, filled with uploads of one display name and deleted
\* again; up to MaxRelocatedId photos
MaxRelocatedId == 3

UploadPanel ==
  /\ nextPhotoId <= MaxRelocatedId
  /\ \E by \in UserIds, pid \in IdInputs(MaxProjectId) :
       upload(by, aJPG, Panel1, <<>>, pid)

NextRelocate ==
  \/ Tick
  \/ CreateProject
  \/ DeleteProject
  \/ UploadPanel

SpecRelocate == Init /\ [][NextRelocate]_vars

\* ---------------------------------------------------- user management
\* administrators create and delete accounts, users change their password,
\* and photos are uploaded so that rows carry an owner
CreateUser ==
  /\ nextUserId <= MaxUserId
  /\ \E by \in UserIds, name \in Usernames, pw \in Passwords, flag \in {0, 1} :
       admin_create_user(by, name, pw, flag)

DeleteUser == \E by \in UserIds, id \in UserIds : admin_delete_user(by, id)

ChangePassword == \E by \in UserIds, cur \in {AdminPassword, <<"p">>},
                     new2 \in Passwords :
  change_password(by, cur, <<"p">>, new2)

UploadOwned ==
  /\ nextPhotoId <= MaxPhotoId
  /\ \E by \in UserIds : upload(by, aJPG, Panel1, <<>>, Str(1))

NextUsers ==
  \/ Tick
  \/ ensure_admin_and_default_project
  \/ CreateUser
  \/ DeleteUser
  \/ ChangePassword
  \/ UploadOwned
  \/ DeletePhoto

SpecUsers == Init /\ [][NextUsers]_vars

\* ------------------------------------------------- project management
\* createProject requests run as two steps, the SELECT loop that picks the
\* slug and then the INSERT, so that two of them can interleave; up to
\* MaxInFlight are between their steps.  Every other request is handled
\* while none is in flight.
MaxInFlight == 2

create_project_select(by, project_name) ==
  /\ IsAdmin(by)
  /\ LET name == Strip(project_name)
     IN IF name = <<>>
        THEN /\ last' = Response("createProject", by, NULL,
                                 "El nombre del proyecto es obligatorio.")
             /\ UNCHANGED pending
        ELSE /\ pending' = pending \cup
                  { [op |-> "createProject", by |-> by, name |-> name,
                     slug |-> UniqueSlug(name)] }
             /\ UNCHANGED last
  /\ UNCHANGED <<users, projects, photos, files, clock, nextUserId,
                 nextProjectId, nextPhotoId>>

create_project_insert(r) ==
  /\ InsertProject(r.by, r.name, r.slug)
  /\ pending' = pending \ {r}
  /\ UNCHANGED <<users, photos, files, clock, nextUserId, nextPhotoId>>

CreateSelect ==
  /\ nextProjectId + Cardinality(pending) <= MaxProjectId
  /\ Cardinality(pending) < MaxInFlight
  /\ \E by \in UserIds, name \in ProjectNames : create_project_select(by, name)

CreateInsert == \E r \in pending : create_project_insert(r)

UpdateProject == \E by \in UserIds, id \in ProjectIds, name \in ProjectNames :
  admin_edit_project(by, id, name)

NextProjects ==
  \/ CreateSelect
  \/ CreateInsert
  \/ pending = {} /\ ensure_admin_and_default_project
  \/ pending = {} /\ UpdateProject
  \/ pending = {} /\ DeleteProject

SpecProjects == Init /\ [][NextProjects]_vars

\* ------------------------------------------------- the default project
\* every kind of request of the application, one at a time, each with a
\* small choice of inputs
RenameProject == \E by \in UserIds, id \in ProjectIds,
                    name \in {RoofA, GeneralName} :
  admin_edit_project(by, id, name)

\* a photo is moved to another project, its name and description kept
MovePhoto == \E by \in UserIds, id \in PhotoIds, pid \in IdInputs(MaxProjectId) :
  edit_photo(by, id, Panel1, <<>>, pid)

CreateUserU ==
  /\ nextUserId <= MaxUserId
  /\ \E by \in UserIds, flag \in {0, 1} :
       admin_create_user(by, <<"u">>, <<"p">>, flag)

NextGeneral ==
  \/ ensure_admin_and_default_project
  \/ CreateProject
  \/ RenameProject
  \/ DeleteProject
  \/ UploadPanel1
  \/ MovePhoto
  \/ DeletePhoto
  \/ CreateUserU
  \/ DeleteUser

SpecGeneral == Init /\ [][NextGeneral]_vars

\* ------------------------------------------- requests racing a deletion
\* upload and editPhoto run as two steps: the SELECTs that validate the
\* form and read the target project (and the photo), then the file
\* operation and the INSERT or UPDATE, which use what the first step read.
\* deleteProject can run between the two.
upload_select(by, file, display_name_in, description_in, project_id_in) ==
  /\ IsAdmin(by)
  /\ LET display_name == Strip(display_name_in)
         description == Strip(description_in)
         project_id == Strip(project_id_in)
         err == UploadError(file, display_name, project_id)
     IN IF err # "ok"
        THEN /\ last' = Response("upload", by, NULL, err)
             /\ UNCHANGED pending
        ELSE /\ pending' = pending \cup
                  { [op |-> "upload", by |-> by, file |-> file,
                     display_name |-> display_name,
                     description |-> description, project_id |-> project_id,
                     proj |-> One(ProjectById(ParseId(project_id)))] }
             /\ UNCHANGED last
  /\ UNCHANGED <<users, projects, photos, files, clock, nextUserId,
                 nextProjectId, nextPhotoId>>

upload_insert(r) ==
  /\ r.op = "upload"
  /\ LET final_name == TimestampedName(BaseName(r.display_name, Now), Now,
                                       Extension(r.file))
         filepath == Join(r.proj.slug, final_name)
     IN /\ files' = WriteFile(files, filepath, nextPhotoId)
        /\ photos' = photos \cup
             { [id |-> nextPhotoId, filepath |-> filepath,
                filename |-> final_name, display_name |-> r.display_name,
                description |-> r.description, uploaded_at |-> Now,
                uploaded_by |-> r.by,
                project_id |-> ParseNat(r.project_id)] }
        /\ nextPhotoId' = nextPhotoId + 1
        /\ last' = Response("upload", r.by, nextPhotoId,
                            "Imagen subida correctamente.")
  /\ pending' = pending \ {r}
  /\ UNCHANGED <<users, projects, clock, nextUserId, nextProjectId>>

edit_photo_select(by, photo_id, name_in, description_in, project_id_in) ==
  /\ IsAdmin(by)
  /\ LET new_display_name == Strip(name_in)
         new_description == Strip(description_in)
         new_project_id == Strip(project_id_in)
         flash == IF PhotoById(photo_id) = {} THEN "Foto no encontrada."
                  ELSE IF new_display_name = <<>>
                       THEN "El nombre/codigo es obligatorio."
                  ELSE IF new_project_id = <<>> THEN "Selecciona un proyecto."
                  ELSE IF ProjectById(ParseId(new_project_id)) = {}
                       THEN "Proyecto invalido."
                  ELSE "ok"
     IN IF flash # "ok"
        THEN /\ last' = Response("editPhoto", by, photo_id, flash)
             /\ UNCHANGED pending
        ELSE /\ pending' = pending \cup
                  { [op |-> "editPhoto", by |-> by,
                     photo |-> One(PhotoById(photo_id)),
                     display_name |-> new_display_name,
                     description |-> new_description,
                     project_id |-> new_project_id,
                     proj |-> One(ProjectById(ParseId(new_project_id)))] }
             /\ UNCHANGED last
  /\ UNCHANGED <<users, projects, photos, files, clock, nextUserId,
                 nextProjectId, nextPhotoId>>

\* UPDATE photos ... WHERE id = ?: no row when the photo is gone
edit_photo_update(r) ==
  /\ r.op = "editPhoto"
  /\ LET plan == EditPlanFor(r.photo, r.display_name, r.project_id, r.proj,
                             files, Now)
     IN /\ files' = plan.files
        /\ photos' = { IF ph.id = r.photo.id
                       THEN [ph EXCEPT !.display_name = r.display_name,
                                       !.description = r.description,
                                       !.project_id = ParseNat(r.project_id),
                                       !.filepath = plan.filepath,
                                       !.filename = plan.filename]
                       ELSE ph : ph \in photos }
        /\ last' = Response("editPhoto", r.by, r.photo.id,
             IF plan.missing
             THEN "Aviso: no se encontro el archivo fisico. Foto actualizada."
             ELSE "Foto actualizada.")
  /\ pending' = pending \ {r}
  /\ UNCHANGED <<users, projects, clock, nextUserId, nextProjectId,
                 nextPhotoId>>

InFlight(op) == Cardinality({ r \in pending : r.op = op })

\* the requests between their two steps while a project is deleted
MaxRacing == 1

UploadSelect ==
  /\ nextPhotoId + InFlight("upload") <= MaxPhotoId
  /\ Cardinality(pending) < MaxRacing
  /\ \E by \in UserIds, pid \in IdInputs(MaxProjectId) :
       upload_select(by, aJPG, Panel1, <<>>, pid)

UploadInsert == \E r \in pending : upload_insert(r)

EditSelect ==
  /\ Cardinality(pending) < MaxRacing
  /\ \E by \in UserIds, id \in PhotoIds, pid \in IdInputs(MaxProjectId) :
       edit_photo_select(by, id, Panel1, <<>>, pid)

EditUpdate == \E r \in pending : edit_photo_update(r)

NextRace ==
  \/ CreateProject
  \/ DeleteProject
  \/ UploadSelect
  \/ UploadInsert
  \/ EditSelect
  \/ EditUpdate

SpecRace == Init /\ [][NextRace]_vars

\* ------------------------------------------- interleaved user deletions
\* deleteUser runs as two steps: the checks with their SELECTs (the target
\* row, the count of administrators), then the UPDATE and the DELETE.  Up to
\* MaxInFlight requests are between their steps.
delete_user_select(by, user_id) ==
  /\ IsAdmin(by)
  /\ LET err == DeleteUserError(by, user_id)
     IN IF err # "ok"
        THEN /\ last' = Response("deleteUser", by, user_id, err)
             /\ UNCHANGED pending
        ELSE /\ pending' = pending \cup
                  { [op |-> "deleteUser", by |-> by, id |-> user_id] }
             /\ UNCHANGED last
  /\ UNCHANGED <<users, projects, photos, files, clock, nextUserId,
                 nextProjectId, nextPhotoId>>

delete_user_delete(r) ==
  /\ r.op = "deleteUser"
  /\ photos' = NullOwner(photos, r.id)
  /\ users' = users \ UserById(r.id)
  /\ last' = Response("deleteUser", r.by, r.id, "Usuario eliminado.")
  /\ pending' = pending \ {r}
  /\ UNCHANGED <<projects, files, clock, nextUserId, nextProjectId,
                 nextPhotoId>>

DeleteUserSelect ==
  /\ Cardinality(pending) < MaxInFlight
  /\ \E by \in UserIds, id \in UserIds : delete_user_select(by, id)

DeleteUserDelete == \E r \in pending : delete_user_delete(r)

NextUsersRace ==
  \/ CreateUser
  \/ DeleteUserSelect
  \/ DeleteUserDelete
  \/ ChangePassword
  \/ UploadOwned

SpecUsersRace == Init /\ [][NextUsersRace]_vars

\* ------------------------------------------------------ access control
\* the decorators refusing a request: login_required sends a request whose
\* session names no row (0: no session at all) to the login page, and the
\* wrappers send a user without the is_admin flag to the dashboard
Principals == 0..MaxUserId

\* the photos uploaded while access is exercised
MaxAccessPhotoId == 1

Refuse(op, by, flash) ==
  /\ last' = Response(op, by, NULL, flash)
  /\ UNCHANGED <<users, projects, photos, files, clock, nextUserId,
                 nextProjectId, nextPhotoId, pending>>

login_required(op, by) ==
  /\ UserById(by) = {}
  /\ Refuse(op, by, "Please log in to access this page.")

admin_required(op, by) ==
  \/ login_required(op, by)
  \/ /\ UserById(by) # {}
     /\ ~IsAdmin(by)
     /\ Refuse(op, by, "Acceso solo para administradores.")

upload_required(op, by) ==
  \/ login_required(op, by)
  \/ /\ UserById(by) # {}
     /\ ~IsAdmin(by)
     /\ Refuse(op, by, "No tienes permisos para subir imagenes.")

\* every operation requested by every principal, administrator or not
AnyCreateUser == \E by \in Principals, flag \in {0, 1} :
  \/ nextUserId <= MaxUserId /\ admin_create_user(by, <<"u">>, <<"p">>, flag)
  \/ admin_required("createUser", by)

AnyDeleteUser == \E by \in Principals, id \in UserIds :
  admin_delete_user(by, id) \/ admin_required("deleteUser", by)

AnyCreateProject == \E by \in Principals :
  \/ nextProjectId <= MaxProjectId /\ admin_create_project(by, RoofA)
  \/ admin_required("createProject", by)

AnyUpdateProject == \E by \in Principals, id \in ProjectIds :
  admin_edit_project(by, id, RoofA) \/ admin_required("updateProject", by)

AnyDeleteProject == \E by \in Principals, id \in ProjectIds :
  admin_delete_project(by, id) \/ admin_required("deleteProject", by)

AnyUpload == \E by \in Principals :
  \/ nextPhotoId <= MaxAccessPhotoId /\ upload(by, aJPG, Panel1, <<>>, Str(1))
  \/ upload_required("upload", by)

AnyEditPhoto == \E by \in Principals, id \in PhotoIds, pid \in {Str(1), Str(2)} :
  edit_photo(by, id, Panel1, <<>>, pid) \/ admin_required("editPhoto", by)

AnyDeletePhoto == \E by \in Principals, id \in PhotoIds :
  delete_photo(by, id) \/ admin_required("deletePhoto", by)

AnyChangePassword == \E by \in Principals :
  \/ change_password(by, <<"p">>, <<"q">>, <<"q">>)
  \/ login_required("changePassword", by)

NextAccess ==
  \/ AnyCreateUser
  \/ AnyDeleteUser
  \/ AnyCreateProject
  \/ AnyUpdateProject
  \/ AnyDeleteProject
  \/ AnyUpload
  \/ AnyEditPhoto
  \/ AnyDeletePhoto
  \/ AnyChangePassword

SpecAccess == Init /\ [][NextAccess]_vars

\* ------------------------------------------------------------- claims
GeneralId == One(ProjectBySlug(GENERAL)).id

SlugOf(project_id) == One(ProjectById(project_id)).slug

\* the row with this id before and after a step
Before(id) == One(PhotoById(id))
After(id) == One({ ph \in photos' : ph.id = id })

roof_a == <<"r","o","o","f","_","a">>
roof_a_2 == <<"r","o","o","f","_","a","_","2">>
panel_1_0_jpg == <<"p","a","n","e","l","_","1","_","0",".","j","p","g">>
panel_1_1_jpg == <<"p","a","n","e","l","_","1","_","1",".","j","p","g">>

C1_GeneralExists == \E p \in projects : p.slug = GENERAL

C1_RefusedUnchanged ==
  \A p \in projects :
     (p.slug = GENERAL /\ last'.op = "deleteProject" /\ last'.id = p.id) =>
        /\ last'.flash = "No se puede eliminar el proyecto General."
        /\ projects' = projects
        /\ photos' = photos
        /\ files' = files

\* C1: in every reachable state a project with slug general exists, and a
\* deleteProject request for the project whose slug is general is refused
\* and leaves the projects table, the photos table and the files unchanged.
C1_DefaultProjectKept == []C1_GeneralExists /\ [][C1_RefusedUnchanged]_vars

C1_DeleteGeneralRefused ==
  /\ last.op = "deleteProject"
  /\ last.flash = "No se puede eliminar el proyecto General."
  /\ photos # {}
  /\ Cardinality(projects) > 1

C2_UniqueSlugs == \A p, q \in projects : p.slug = q.slug => p = q

\* the k-th slug createProject tries for a base: base, base_2, base_3, ...
C2_Candidate(base, k) == IF k = 1 THEN base ELSE base \o <<"_">> \o Str(k)

C2_FirstFree(row, taken) ==
  \E k \in 1..(Cardinality(taken) + 1) :
     /\ row.slug = C2_Candidate(slugify(row.name), k)
     /\ row.slug \notin taken
     /\ \A j \in 1..(k - 1) : C2_Candidate(slugify(row.name), j) \in taken

C2_NewRow ==
  \A row \in projects' \ projects :
     row.id \notin { p.id : p \in projects } =>
        /\ C2_FirstFree(row, Slugs)
        /\ (row.name = RoofABang /\ roof_a \in Slugs /\ roof_a_2 \notin Slugs)
             => row.slug = roof_a_2

\* C2: no two project rows ever have the same slug, and every project row
\* that a createProject inserts, interleaved with another createProject or
\* not, has the first slug among base, base_2, base_3, ... that no row had
\* (roof_a_2 for Roof A!! once roof_a is taken).
C2_SlugsUnique == []C2_UniqueSlugs /\ [][C2_NewRow]_vars

C2_SecondRoofA ==
  /\ \E p \in projects : p.name = RoofA /\ p.slug = roof_a
  /\ \E p \in projects : p.name = RoofABang /\ p.slug = roof_a_2

C3_MustRefuse(by, id) ==
  \/ id = by
  \/ \E u \in users : u.id = id /\ u.is_admin = 1 /\ Admins = {u}

C3_Owners(rows) == { <<ph.id, ph.uploaded_by>> : ph \in rows }

C3_Refusal ==
  \A by, id \in UserIds :
     (/\ last'.op = "deleteUser"
      /\ last'.by = by
      /\ last'.id = id
      /\ C3_MustRefuse(by, id)) =>
        /\ last'.flash \in { "No puedes eliminar tu propio usuario.",
                             "No puedes eliminar el ultimo administrador." }
        /\ users' = users
        /\ C3_Owners(photos') = C3_Owners(photos)

\* C3: a deleteUser request whose target is the requester's own account, or
\* an administrator that is the only administrator row, is refused and
\* leaves the users table and every photo's owner unchanged; every reachable
\* state has at least one administrator.
C3_AdminsRemain == [](Admins # {}) /\ [][C3_Refusal]_vars

C3_SelfDeleteRefused ==
  /\ last.op = "deleteUser"
  /\ last.by = last.id
  /\ last.flash = "No puedes eliminar tu propio usuario."
  /\ Cardinality(users) = 2
  /\ photos # {}

\* C4: every photo record's filepath names a file that exists under the
\* uploads root.
C4_EveryRecordHasItsFile ==
  \A ph \in photos : Exists(files, ph.filepath)

C5_Relocated(ph, ph2) ==
  /\ ph2.project_id = GeneralId
  /\ ph2.filepath = Join(GENERAL, ph2.filename)
  /\ "/" \notin Range(ph2.filename)
  /\ Exists(files, ph.filepath) =>
       /\ Exists(files', ph2.filepath)
       /\ files'[ph2.filepath] = files[ph.filepath]
       /\ ~Exists(files', ph.filepath)

C5_DeleteProjectStep ==
  \A p \in projects \ projects' :
     /\ p.slug # GENERAL
     /\ projects' = projects \ {p}
     /\ { ph.id : ph \in photos' } = { ph.id : ph \in photos }
     /\ \A ph \in photos :
          IF ph.project_id = p.id
          THEN C5_Relocated(ph, After(ph.id))
          ELSE After(ph.id) = ph

\* C5: a step that removes a project row P (a successful deleteProject)
\* removes no photo; every photo that referenced P now references the
\* default project, has filepath general/<name> and filename <name>; and if
\* its file existed before, that file is now at the new path and nothing is
\* left at the old path.
C5_DeleteProjectRelocates == [][C5_DeleteProjectStep]_vars

C6_Untouched(p) ==
  \A fp \in DOMAIN files :
     (/\ Dirname(fp) = GENERAL
      /\ \A ph \in photos : ph.project_id = p.id => ph.filepath # fp)
     => Exists(files', fp) /\ files'[fp] = files[fp]

\* C6: a step that removes a project row overwrites no file of the default
\* project's directory: every file that was in general/ and is not the file
\* of a photo being relocated is still there with the content it had.
C6_DeleteProjectNeverOverwrites ==
  [][\A p \in projects \ projects' : C6_Untouched(p)]_vars

C7_IsRename(id) ==
  /\ last'.op = "editPhoto"
  /\ last'.id = id
  /\ PhotoById(id) # {}
  /\ Lower(Before(id).display_name) # Lower(After(id).display_name)
  /\ Exists(files, Before(id).filepath)

C7_Renamed(id) ==
  /\ Exists(files', After(id).filepath)
  /\ files'[After(id).filepath] = files[Before(id).filepath]
  /\ After(id).filepath = Join(SlugOf(After(id).project_id), After(id).filename)

C8_IsDescriptionEdit(id) ==
  /\ last'.op = "editPhoto"
  /\ last'.id = id
  /\ PhotoById(id) # {}
  /\ After(id).display_name = Before(id).display_name
  /\ After(id).project_id = Before(id).project_id

\* C8: an editPhoto that keeps the display name and the project leaves the
\* files under the uploads root and the row's filepath and filename as they
\* were.
C8_DescriptionEditKeepsPath ==
  [][\A id \in PhotoIds : C8_IsDescriptionEdit(id) =>
        /\ files' = files
        /\ After(id).filepath = Before(id).filepath
        /\ After(id).filename = Before(id).filename]_vars

C9_Allowed ==
  { <<"p","n","g">>, <<"j","p","g">>, <<"j","p","e","g">>,
    <<"w","e","b","p">> }

\* what follows the last dot of the file name, in lower case
C9_Ext(file) ==
  IF LastIndexOf(file, ".") = 0 THEN <<>>
  ELSE Lower(SubSeq(file, LastIndexOf(file, ".") + 1, Len(file)))

C9_Invalid(file, name, pid) ==
  \/ pid = <<>>
  \/ \A p \in projects : Str(p.id) # pid
  \/ file \in {NoFile, <<>>}
  \/ \A i \in DOMAIN name : name[i] = " "
  \/ C9_Ext(file) \notin C9_Allowed

C9_ValidationErrors ==
  { "Selecciona un proyecto.", "Proyecto invalido.", "Selecciona una imagen.",
    "El nombre/codigo es obligatorio.", "Formato no permitido. Usa JPG/PNG/WEBP." }

\* C9: an upload that has no project, an unknown project, no file, an empty
\* display name or a file whose extension is not png, jpg, jpeg or webp
\* (whatever the case) is answered with a validation error and leaves the
\* photos table and the files as they were.
C9_InvalidUploadChangesNothing ==
  [][last'.op = "upload" =>
       \A by \in UserIds, file \in UploadFiles, name \in DisplayNames,
          d \in Descriptions, pid \in IdInputs(MaxProjectId) :
         (C9_Invalid(file, name, pid) /\ upload(by, file, name, d, pid)) =>
            /\ photos' = photos
            /\ files' = files
            /\ nextPhotoId' = nextPhotoId
            /\ last'.flash \in C9_ValidationErrors]_vars

C9_GifRejected ==
  /\ last.op = "upload"
  /\ last.flash = "Formato no permitido. Usa JPG/PNG/WEBP."
  /\ photos # {}

C10_Deleted(id) ==
  /\ UserById(id) # {}
  /\ users' = users \ UserById(id)
  /\ Cardinality(photos') = Cardinality(photos)
  /\ \A ph \in photos : \E ph2 \in photos' :
        /\ ph2 = [ph EXCEPT !.uploaded_by = ph2.uploaded_by]
        /\ ph2.uploaded_by = IF ph.uploaded_by = id THEN NULL
                             ELSE ph.uploaded_by
  /\ files' = files
  /\ \A ph \in photos' :
        ph.uploaded_by = NULL \/ \E u \in users' : u.id = ph.uploaded_by

\* C10: a successful deleteUser of user U removes exactly U's row, sets the
\* owner to null on every photo U uploaded and changes nothing else of the
\* photos table or the files; afterwards no photo's owner names a user
\* without a row.
C10_DeleteUserNullsOwner ==
  [][\A id \in UserIds :
       (/\ last'.op = "deleteUser"
        /\ last'.id = id
        /\ last'.flash = "Usuario eliminado.") => C10_Deleted(id)]_vars

C10_OwnerNulled ==
  /\ last.op = "deleteUser"
  /\ last.flash = "Usuario eliminado."
  /\ \E ph \in photos : ph.uploaded_by = NULL

C11_NotAdministrator(by) == \A u \in users : u.id = by => u.is_admin = 0

C11_OwnHashOnly(by) ==
  /\ last'.op = "changePassword"
  /\ { u.id : u \in users' } = { u.id : u \in users }
  /\ \A u \in users : \E v \in users' :
        /\ v = [u EXCEPT !.password_hash = v.password_hash]
        /\ u.id # by => v = u

C11_Request ==
  \A by \in Principals :
     (last'.op # "none" /\ last'.by = by /\ C11_NotAdministrator(by)) =>
        /\ projects' = projects
        /\ photos' = photos
        /\ files' = files
        /\ users' = users \/ C11_OwnHashOnly(by)

\* C11: a request of a principal that is not an administrator (no session,
\* a session whose user has no row, or a user without the flag) changes no
\* project row, no photo row and no file, and changes the users table at
\* most in the requester's own password hash, through changePassword.
C11_NonAdminChangesNothing == [][C11_Request]_vars

C11_NonAdminRefused ==
  /\ last.op = "deletePhoto"
  /\ last.flash = "Acceso solo para administradores."
  /\ \E u \in users : u.id = last.by /\ u.is_admin = 0
  /\ photos # {}

\* C12: every photo record's filepath is <slug>/<filename>, with the slug of
\* the project the record references and the record's own filename.
C12_PathMatchesProject ==
  \A ph \in photos :
     \E p \in projects : /\ p.id = ph.project_id
                         /\ ph.filepath = Join(p.slug, ph.filename)

\* C13: no two photo records have the same filepath, and no upload writes
\* over the file of a photo that is already recorded.
C13_NoSharedPath == \A ph, other \in photos :
  ph.filepath = other.filepath => ph = other

C13_UploadKeepsFiles ==
  last'.op = "upload" =>
     \A ph \in photos :
        Exists(files, ph.filepath) =>
           Exists(files', ph.filepath) /\ files'[ph.filepath] = files[ph.filepath]

C13_StoredPathsUnique == []C13_NoSharedPath /\ [][C13_UploadKeepsFiles]_vars

C14_OthersKept(id) ==
  \A fp \in DOMAIN files :
     fp # Before(id).filepath =>
        Exists(files', fp) /\ files'[fp] = files[fp]

\* C14: an editPhoto never overwrites a file: every file other than the
\* edited photo's own is afterwards where it was, with the content it had.
C14_EditNeverOverwrites ==
  [][\A id \in PhotoIds :
       (last'.op = "editPhoto" /\ last'.id = id /\ PhotoById(id) # {}) =>
          C14_OthersKept(id)]_vars

\* C15: every photo record's project_id names a row of the projects table.
C15_ProjectExists ==
  \A ph \in photos : \E p \in projects : p.id = ph.project_id

\* C16: at least one administrator row exists in every state, also when
\* deleteUser requests are interleaved.
C16_AdministratorRemains == \E u \in users : u.is_admin = 1

====
